---- MODULE Spec2Model ----
(***************************************************************************)
(* A model of koa's request facade (lib/request.js): the derived           *)
(* properties of one raw HTTP request.  Strings are sequences of           *)
(* one-character strings, so that splitting, trimming, escaping and        *)
(* concatenation are computed character by character.                      *)
(***************************************************************************)
EXTENDS Integers, Sequences, FiniteSets, TLC

VARIABLES
    headers,          \* req.headers: [id, map]; map is the header mapping
    url,              \* req.url
    parsedUrl,        \* req._parsedUrl, parseurl's memo on the raw request
    method,           \* req.method
    socket,           \* req.socket: [encrypted, remoteAddress]
    httpVersionMajor, \* req.httpVersionMajor
    app,              \* this.app: [proxy, proxyIpHeader, maxIpsCount]
    ip,               \* this[IP], the memo slot of the ip getter
    querycache,       \* this._querycache
    memoizedURL,      \* this.memoizedURL
    originalUrl,      \* this.originalUrl
    status,           \* this.ctx.status, the paired response's status
    responseHeader,   \* this.response.header
    nextId,           \* identity of the next object a constructor allocates
    ret               \* what the most recent accessor call returned

vars == <<headers, url, parsedUrl, method, socket, httpVersionMajor, app, ip,
          querycache, memoizedURL, originalUrl, status, responseHeader,
          nextId, ret>>

----------------------------------------------------------------------------
(* Bounds of the model.                                                    *)

MaxHostLen == 2
MaxProtoParts == 2
MaxIpsLen == 4
MaxIpsCount == 2
MaxForwardedLen == 2
MaxPathLen == 1
MaxQueryLen == 2
MaxCached == 2
MaxCachedQueryLen == 1
MaxHeaderLen == 1
MaxHeaderObjects == 3
MaxUrlObjects == 2

----------------------------------------------------------------------------
(* Strings.                                                                *)

Strs(alphabet, n) == UNION {[1..k -> alphabet] : k \in 0..n}

RECURSIVE Flatten(_)
Flatten(parts) ==
    IF parts = <<>> THEN <<>> ELSE Head(parts) \o Flatten(Tail(parts))

\* every concatenation of at most n pieces
Joined(pieces, n) == {Flatten(p) : p \in Strs(pieces, n)}

NoRet == [op |-> "none", val |-> <<>>]

Whitespace == {" "}

RECURSIVE TrimStart(_)
TrimStart(s) ==
    IF s # <<>> /\ Head(s) \in Whitespace THEN TrimStart(Tail(s)) ELSE s

RECURSIVE TrimEnd(_)
TrimEnd(s) ==
    IF s # <<>> /\ s[Len(s)] \in Whitespace
    THEN TrimEnd(SubSeq(s, 1, Len(s) - 1))
    ELSE s

\* String.prototype.trim
Trim(s) == TrimEnd(TrimStart(s))

\* String.prototype.split(sep) for a one-character separator: every piece,
\* the empty ones included; the empty string splits into one empty piece.
RECURSIVE SplitAll(_, _, _)
SplitAll(s, sep, cur) ==
    IF s = <<>> THEN <<cur>>
    ELSE IF Head(s) = sep THEN <<cur>> \o SplitAll(Tail(s), sep, <<>>)
    ELSE SplitAll(Tail(s), sep, Append(cur, Head(s)))

\* An optional argument is a sequence: empty when the call omits it.
Omitted == <<>>
Given(x) == <<x>>

\* String.prototype.split(sep, limit): every piece when limit is omitted,
\* else the first limit pieces.
JsSplit(s, sep, limit) ==
    LET all == SplitAll(s, sep, <<>>)
    IN  IF limit = Omitted THEN all
        ELSE SubSeq(all, 1, IF limit[1] < Len(all) THEN limit[1] ELSE Len(all))

\* Array.prototype.slice(start) for a negative start: the last -start items.
SliceLast(arr, n) ==
    IF n >= Len(arr) THEN arr ELSE SubSeq(arr, Len(arr) - n + 1, Len(arr))

UpperCase ==
    <<"A","B","C","D","E","F","G","H","I","J","K","L","M",
     "N","O","P","Q","R","S","T","U","V","W","X","Y","Z">>
LowerCase ==
    <<"a","b","c","d","e","f","g","h","i","j","k","l","m",
     "n","o","p","q","r","s","t","u","v","w","x","y","z">>

LowerChar(c) ==
    IF \E i \in DOMAIN UpperCase : UpperCase[i] = c
    THEN LowerCase[CHOOSE i \in DOMAIN UpperCase : UpperCase[i] = c]
    ELSE c

\* String.prototype.toLowerCase
ToLowerCase(s) == [i \in DOMAIN s |-> LowerChar(s[i])]

----------------------------------------------------------------------------
(* Header names and protocol names, as the source spells them.             *)

XForwardedHost == <<"X","-","F","o","r","w","a","r","d","e","d","-","H","o","s","t">>
XForwardedProto == <<"X","-","F","o","r","w","a","r","d","e","d","-","P","r","o","t","o">>
XForwardedFor == <<"X","-","F","o","r","w","a","r","d","e","d","-","F","o","r">>
XRealIp == <<"X","-","R","e","a","l","-","I","P">>
Authority == <<":","a","u","t","h","o","r","i","t","y">>
HostField == <<"H","o","s","t">>
Referer == <<"r","e","f","e","r","e","r">>
Referrer == <<"r","e","f","e","r","r","e","r">>
HTTP == <<"h","t","t","p">>
HTTPS == <<"h","t","t","p","s">>

----------------------------------------------------------------------------
(* The accessors of lib/request.js that read headers, app and socket.      *)

\* the names every plain object inherits from Object.prototype
ObjectPrototypeKeys ==
    {<<"c","o","n","s","t","r","u","c","t","o","r">>,
     <<"_","_","d","e","f","i","n","e","G","e","t","t","e","r","_","_">>,
     <<"_","_","d","e","f","i","n","e","S","e","t","t","e","r","_","_">>,
     <<"h","a","s","O","w","n","P","r","o","p","e","r","t","y">>,
     <<"_","_","l","o","o","k","u","p","G","e","t","t","e","r","_","_">>,
     <<"_","_","l","o","o","k","u","p","S","e","t","t","e","r","_","_">>,
     <<"i","s","P","r","o","t","o","t","y","p","e","O","f">>,
     <<"p","r","o","p","e","r","t","y","I","s","E","n","u","m","e","r","a","b","l","e">>,
     <<"t","o","S","t","r","i","n","g">>,
     <<"v","a","l","u","e","O","f">>,
     <<"_","_","p","r","o","t","o","_","_">>,
     <<"t","o","L","o","c","a","l","e","S","t","r","i","n","g">>}

\* The value of a JavaScript expression: a string, a member every plain object
\* inherits, or undefined.
Str(s) == [kind |-> "string", value |-> s]
Inherited(name) == [kind |-> "Object.prototype member", value |-> name]
NotFound == [kind |-> "undefined", value |-> <<>>]

\* obj[key] on a plain object whose own entries are strings
Property(map, key) ==
    IF key \in DOMAIN map THEN Str(map[key])
    ELSE IF key \in ObjectPrototypeKeys THEN Inherited(key)
    ELSE NotFound

\* v || ''
OrEmptyString(v) == IF v \in {NotFound, Str(<<>>)} THEN Str(<<>>) ELSE v

\* obj[key] || '' for a key that no plain object inherits
Lookup(map, key) == IF key \in DOMAIN map THEN map[key] ELSE <<>>

\* this.get(field)
get(field) ==
    LET f == ToLowerCase(field)
    IN  IF f \in {Referer, Referrer}
        THEN IF OrEmptyString(Property(headers.map, Referrer)) # Str(<<>>)
             THEN Property(headers.map, Referrer)
             ELSE OrEmptyString(Property(headers.map, Referer))
        ELSE OrEmptyString(Property(headers.map, f))

\* this.get(field) where the caller goes on with a string: the accessors
\* below ask for header names that no plain object inherits
Get(field) == get(field).value

splitCommaSeparatedValues(value, limit) ==
    LET pieces == JsSplit(value, ",", limit)
    IN  [i \in DOMAIN pieces |-> Trim(pieces[i])]

\* a host getter that trusts X-Forwarded-Host whatever app.proxy says
HostTrustingAlways ==
    LET forwarded == Get(XForwardedHost)
        authority == IF forwarded = <<>> /\ httpVersionMajor >= 2
                     THEN Get(Authority) ELSE <<>>
        host == IF forwarded # <<>> THEN forwarded
                ELSE IF authority # <<>> THEN authority
                ELSE Get(HostField)
    IN  IF host = <<>> THEN <<>> ELSE splitCommaSeparatedValues(host, Given(1))[1]

\* a host getter that asks the Host header before the :authority pseudo-header
HostBeforeAuthority ==
    LET forwarded == IF app.proxy THEN Get(XForwardedHost) ELSE <<>>
        plain == IF forwarded = <<>> THEN Get(HostField) ELSE <<>>
        host == IF forwarded # <<>> THEN forwarded
                ELSE IF plain # <<>> THEN plain
                ELSE IF httpVersionMajor >= 2 THEN Get(Authority)
                ELSE <<>>
    IN  IF host = <<>> THEN <<>> ELSE splitCommaSeparatedValues(host, Given(1))[1]

\* get host
Host ==
    LET forwarded == IF app.proxy THEN Get(XForwardedHost) ELSE <<>>
        authority == IF forwarded = <<>> /\ httpVersionMajor >= 2
                     THEN Get(Authority) ELSE <<>>
        host == IF forwarded # <<>> THEN forwarded
                ELSE IF authority # <<>> THEN authority
                ELSE Get(HostField)
    IN  IF host = <<>> THEN <<>> ELSE splitCommaSeparatedValues(host, Given(1))[1]

\* a protocol getter that asks X-Forwarded-Proto before the socket
ProtocolForwardedFirst ==
    LET proto == IF app.proxy THEN Get(XForwardedProto) ELSE <<>>
    IN  IF proto # <<>> THEN splitCommaSeparatedValues(proto, Given(1))[1]
        ELSE IF socket.encrypted THEN HTTPS
        ELSE HTTP

\* get protocol
Protocol ==
    IF socket.encrypted THEN HTTPS
    ELSE IF ~app.proxy THEN HTTP
    ELSE LET proto == Get(XForwardedProto)
         IN  IF proto # <<>> THEN splitCommaSeparatedValues(proto, Given(1))[1]
             ELSE HTTP

\* get secure
Secure == Protocol = HTTPS

\* an ips getter that keeps the first maxIpsCount entries
IpsKeepingFirst ==
    LET val == Get(app.proxyIpHeader)
        ips == IF app.proxy /\ val # <<>>
               THEN splitCommaSeparatedValues(val, Omitted)
               ELSE <<>>
    IN  IF app.maxIpsCount > 0 /\ app.maxIpsCount < Len(ips)
        THEN SubSeq(ips, 1, app.maxIpsCount)
        ELSE ips

\* get ips
Ips ==
    LET val == Get(app.proxyIpHeader)
        ips == IF app.proxy /\ val # <<>>
               THEN splitCommaSeparatedValues(val, Omitted)
               ELSE <<>>
    IN  IF app.maxIpsCount > 0 THEN SliceLast(ips, app.maxIpsCount) ELSE ips

----------------------------------------------------------------------------
(* The state of a facade that no accessor has touched yet.                 *)

GET == <<"G","E","T">>
HEAD == <<"H","E","A","D">>
POST == <<"P","O","S","T">>

NoParsedUrl ==
    [parsed |-> FALSE, raw |-> <<>>, pathname |-> <<>>, search |-> <<>>,
     query |-> <<>>]
NoURL == [kind |-> "none", id |-> 0, href |-> <<>>]
EmptyMap == [k \in {} |-> <<>>]
Slash == <<"/">>

\* the mapping holding the entries of f whose names are in present
Restrict(f, present) == [k \in present |-> f[k]]

Untouched ==
    /\ originalUrl = url
    /\ parsedUrl = NoParsedUrl
    /\ method = GET
    /\ ip = <<>>
    /\ querycache = EmptyMap
    /\ memoizedURL = NoURL
    /\ status = 200
    /\ responseHeader = EmptyMap
    /\ nextId = 1
    /\ ret = NoRet

----------------------------------------------------------------------------
(* Proxy trust: host, protocol, secure and ips as functions of the raw     *)
(* request and the application's settings.  The inputs of each accessor    *)
(* vary together; the inputs of the other accessors stay at their          *)
(* defaults.                                                               *)

xfh == ToLowerCase(XForwardedHost)
xfp == ToLowerCase(XForwardedProto)
xff == ToLowerCase(XForwardedFor)
xri == ToLowerCase(XRealIp)
hostKey == ToLowerCase(HostField)

ForwardedHostValues == Strs({"x", ",", " "}, MaxHostLen)
AuthorityValues == Strs({"y", ","}, MaxHostLen)
HostValues == Strs({"z", ","}, MaxHostLen)
ProtoValues == Joined({HTTP, HTTPS, <<",">>, <<" ">>}, MaxProtoParts)
IpsValues == Strs({"1", "2", ",", " "}, MaxIpsLen)
IpHeaderNames == {XForwardedFor, XRealIp}

InitHostInputs ==
    /\ \E f \in ForwardedHostValues, a \in AuthorityValues, h \in HostValues,
          present \in SUBSET {xfh, Authority, hostKey} :
            headers = [id |-> 0,
                       map |-> Restrict((xfh :> f) @@ (Authority :> a) @@ (hostKey :> h),
                                        present)]
    /\ httpVersionMajor \in {1, 2}
    /\ socket = [encrypted |-> FALSE, remoteAddress |-> <<>>]
    /\ \E p \in BOOLEAN :
          app = [proxy |-> p, proxyIpHeader |-> XForwardedFor, maxIpsCount |-> 0]

InitProtoInputs ==
    /\ \E v \in ProtoValues, present \in SUBSET {xfp} :
          headers = [id |-> 0, map |-> Restrict((xfp :> v), present)]
    /\ httpVersionMajor = 1
    /\ \E e \in BOOLEAN : socket = [encrypted |-> e, remoteAddress |-> <<>>]
    /\ \E p \in BOOLEAN :
          app = [proxy |-> p, proxyIpHeader |-> XForwardedFor, maxIpsCount |-> 0]

InitIpsInputs ==
    /\ \E v \in IpsValues, k \in {xff, xri}, present \in BOOLEAN :
          headers = [id |-> 0,
                     map |-> Restrict((k :> v), IF present THEN {k} ELSE {})]
    /\ httpVersionMajor = 1
    /\ socket = [encrypted |-> FALSE, remoteAddress |-> <<>>]
    /\ \E p \in BOOLEAN, n \in IpHeaderNames, m \in 0..MaxIpsCount :
          app = [proxy |-> p, proxyIpHeader |-> n, maxIpsCount |-> m]

InitProxy ==
    /\ url = Slash
    /\ Untouched
    /\ (InitHostInputs \/ InitProtoInputs \/ InitIpsInputs)

Returns(op, val) ==
    /\ ret' = [op |-> op, val |-> val]
    /\ UNCHANGED <<headers, url, parsedUrl, method, socket, httpVersionMajor,
                   app, ip, querycache, memoizedURL, originalUrl, status,
                   responseHeader, nextId>>

GetHost == Returns("host", Host)
GetProtocol == Returns("protocol", Protocol)
GetSecure == Returns("secure", Secure)
GetIps == Returns("ips", Ips)

NextProxy == GetHost \/ GetProtocol \/ GetSecure \/ GetIps

SpecProxy == InitProxy /\ [][NextProxy]_vars

----------------------------------------------------------------------------
(* What the claims about proxy trust expect, computed from the raw         *)
(* request without the accessors.                                          *)

RawHeader(name) ==
    IF name \in DOMAIN headers.map THEN headers.map[name] ELSE <<>>

RECURSIVE UpToComma(_)
UpToComma(s) ==
    IF s = <<>> \/ Head(s) = "," THEN <<>> ELSE <<Head(s)>> \o UpToComma(Tail(s))

RECURSIVE AfterComma(_)
AfterComma(s) ==
    IF s = <<>> THEN <<>> ELSE IF Head(s) = "," THEN Tail(s) ELSE AfterComma(Tail(s))

HasComma(s) == \E i \in DOMAIN s : s[i] = ","

\* the first entry of a comma-separated list, trimmed
FirstListed(s) == Trim(UpToComma(s))

\* every entry of a comma-separated list, trimmed, in order
RECURSIVE AllListed(_)
AllListed(s) ==
    IF HasComma(s) THEN <<FirstListed(s)>> \o AllListed(AfterComma(s))
    ELSE <<Trim(s)>>

\* the last n entries of a list
RECURSIVE LastEntries(_, _)
LastEntries(list, n) ==
    IF Len(list) <= n THEN list ELSE LastEntries(Tail(list), n)

\* the first non-empty string of a list of strings, or the empty string
RECURSIVE FirstNonEmpty(_)
FirstNonEmpty(sources) ==
    IF sources = <<>> THEN <<>>
    ELSE IF Head(sources) # <<>> THEN Head(sources)
    ELSE FirstNonEmpty(Tail(sources))

AuthorityIfHttp2 == IF httpVersionMajor >= 2 THEN RawHeader(Authority) ELSE <<>>

\* C1 (as amended): with app.proxy disabled, host is the first listed value of
\* the :authority pseudo-header on an HTTP/2 connection and else of the Host
\* header, protocol is https when the socket is encrypted and else http, and
\* ips is the empty list: no X-Forwarded-* header and no proxyIpHeader setting
\* enters any of the three results.
C1_UntrustedIgnoresForwarded ==
    ~app.proxy =>
        /\ ret.op = "host" =>
              ret.val = FirstListed(FirstNonEmpty(<<AuthorityIfHttp2, RawHeader(hostKey)>>))
        /\ ret.op = "protocol" =>
              ret.val = (IF socket.encrypted THEN HTTPS ELSE HTTP)
        /\ ret.op = "ips" => ret.val = <<>>

\* C1 (as stated): with app.proxy disabled, host is the first listed value of
\* the Host header, protocol is https when the socket is encrypted and else
\* http, and ips is the empty list.
C1_AsStated ==
    ~app.proxy =>
        /\ ret.op = "host" => ret.val = FirstListed(RawHeader(hostKey))
        /\ ret.op = "protocol" =>
              ret.val = (IF socket.encrypted THEN HTTPS ELSE HTTP)
        /\ ret.op = "ips" => ret.val = <<>>

\* host was read with app.proxy disabled while a X-Forwarded-Host header
\* named another host
C1_Witness ==
    /\ ~app.proxy
    /\ ret.op = "host"
    /\ FirstListed(RawHeader(xfh)) # <<>>
    /\ ret.val # <<>>
    /\ ret.val # FirstListed(RawHeader(xfh))

\* C2: with app.proxy enabled, host is the trimmed first comma-separated value
\* of the first non-empty source among X-Forwarded-Host, :authority (HTTP/2 and
\* later only) and Host, and the empty string when there is none.
C2_HostTrustChain ==
    (app.proxy /\ ret.op = "host") =>
        ret.val = FirstListed(FirstNonEmpty(
                     <<RawHeader(xfh), AuthorityIfHttp2, RawHeader(hostKey)>>))

\* host was read with app.proxy enabled on an HTTP/2 connection that has no
\* X-Forwarded-Host and both an :authority and a Host naming different hosts
C2_Witness ==
    /\ app.proxy
    /\ ret.op = "host"
    /\ httpVersionMajor >= 2
    /\ RawHeader(xfh) = <<>>
    /\ RawHeader(Authority) # <<>>
    /\ RawHeader(hostKey) # <<>>
    /\ ret.val # <<>>
    /\ ret.val # FirstListed(RawHeader(hostKey))

\* C3: protocol is https whenever the socket is encrypted; otherwise, with
\* app.proxy enabled, it is the trimmed first comma-separated value of
\* X-Forwarded-Proto, or http when that header is absent; otherwise http.
\* secure is true exactly when protocol is https.
C3_Protocol ==
    /\ ret.op = "protocol" =>
          ret.val = (IF socket.encrypted THEN HTTPS
                     ELSE IF app.proxy /\ RawHeader(xfp) # <<>>
                          THEN FirstListed(RawHeader(xfp))
                     ELSE HTTP)
    /\ ret.op = "secure" => (ret.val <=> (Protocol = HTTPS))
    /\ ret.op = "secure" =>
          (ret.val <=> (\/ socket.encrypted
                        \/ app.proxy /\ FirstListed(RawHeader(xfp)) = HTTPS))

\* protocol was read on an encrypted socket while app.proxy is enabled and
\* X-Forwarded-Proto says http
C3_Witness ==
    /\ ret.op = "protocol"
    /\ socket.encrypted
    /\ app.proxy
    /\ FirstListed(RawHeader(xfp)) = HTTP
    /\ ret.val = HTTPS

\* C4: with app.proxy enabled, ips is the list of the trimmed comma-separated
\* entries of the header app.proxyIpHeader names, in header order, cut to its
\* last maxIpsCount entries when maxIpsCount > 0, and the empty list when the
\* header is absent.
C4_Ips ==
    (app.proxy /\ ret.op = "ips") =>
        LET val == RawHeader(ToLowerCase(app.proxyIpHeader))
            all == IF val = <<>> THEN <<>> ELSE AllListed(val)
        IN  ret.val = (IF app.maxIpsCount > 0
                       THEN LastEntries(all, app.maxIpsCount)
                       ELSE all)

\* ips was read with app.proxy enabled, a maximum configured and more entries
\* in the header than the maximum; the entries dropped differ from those kept
C4_Witness ==
    /\ app.proxy
    /\ ret.op = "ips"
    /\ app.maxIpsCount > 0
    /\ Len(AllListed(RawHeader(ToLowerCase(app.proxyIpHeader)))) > app.maxIpsCount
    /\ Len(ret.val) = app.maxIpsCount
    /\ ret.val # SubSeq(AllListed(RawHeader(ToLowerCase(app.proxyIpHeader))),
                        1, app.maxIpsCount)

----------------------------------------------------------------------------
(* The client address: get ip memoizes in this[IP], set ip overwrites it,  *)
(* and the raw request and the application change underneath.              *)

Addresses == {<<>>, <<"1">>, <<"2">>}
ForwardedForValues == Strs({"3", ","}, MaxForwardedLen)

\* a || b on strings: the empty string is falsy
Or(a, b) == IF a # <<>> THEN a ELSE b

\* arr[0] || ''
FirstOrEmpty(arr) == IF arr = <<>> THEN <<>> ELSE arr[1]

\* the value get ip leaves in this[IP]
ResolvedIp ==
    IF ip = <<>>
    THEN Or(FirstOrEmpty(Ips), Or(socket.remoteAddress, <<>>))
    ELSE ip

\* get ip
GetIp ==
    /\ ip' = ResolvedIp
    /\ ret' = [op |-> "ip", val |-> ip']
    /\ UNCHANGED <<headers, url, parsedUrl, method, socket, httpVersionMajor,
                   app, querycache, memoizedURL, originalUrl, status,
                   responseHeader, nextId>>

\* set ip
SetIp(_ip) ==
    /\ ip' = _ip
    /\ ret' = [op |-> "set ip", val |-> _ip]
    /\ UNCHANGED <<headers, url, parsedUrl, method, socket, httpVersionMajor,
                   app, querycache, memoizedURL, originalUrl, status,
                   responseHeader, nextId>>

\* the raw request's forwarded header changes in place
ChangeForwardedFor(v) ==
    /\ headers' = [headers EXCEPT !.map = (xff :> v) @@ @]
    /\ UNCHANGED <<url, parsedUrl, method, socket, httpVersionMajor, app, ip,
                   querycache, memoizedURL, originalUrl, status,
                   responseHeader, nextId, ret>>

\* the application's proxy setting changes
ChangeProxy(p) ==
    /\ app' = [app EXCEPT !.proxy = p]
    /\ UNCHANGED <<headers, url, parsedUrl, method, socket, httpVersionMajor,
                   ip, querycache, memoizedURL, originalUrl, status,
                   responseHeader, nextId, ret>>

\* the socket's remote address changes
ChangeRemoteAddress(a) ==
    /\ socket' = [socket EXCEPT !.remoteAddress = a]
    /\ UNCHANGED <<headers, url, parsedUrl, method, httpVersionMajor, app, ip,
                   querycache, memoizedURL, originalUrl, status,
                   responseHeader, nextId, ret>>

InitIp ==
    /\ url = Slash
    /\ Untouched
    /\ \E v \in ForwardedForValues, present \in BOOLEAN :
          headers = [id |-> 0,
                     map |-> Restrict((xff :> v), IF present THEN {xff} ELSE {})]
    /\ httpVersionMajor = 1
    /\ \E a \in Addresses : socket = [encrypted |-> FALSE, remoteAddress |-> a]
    /\ \E p \in BOOLEAN, m \in 0..MaxIpsCount :
          app = [proxy |-> p, proxyIpHeader |-> XForwardedFor, maxIpsCount |-> m]

NextIp ==
    \/ GetIp
    \/ \E a \in Addresses \ {<<>>} : SetIp(a)
    \/ \E v \in ForwardedForValues : ChangeForwardedFor(v)
    \/ \E p \in BOOLEAN : ChangeProxy(p)
    \/ \E a \in Addresses : ChangeRemoteAddress(a)

SpecIp == InitIp /\ [][NextIp]_vars

\* C5: a read of ip that follows a read of ip, whatever happened to the
\* forwarded header, app.proxy and the socket address in between, returns the
\* same value; a read that follows an assignment to ip returns the assigned
\* value.
C5_ResolvesOnce ==
    [][/\ (ret.op = "ip" /\ ret'.op = "ip") => ret'.val = ret.val
       /\ (ret.op = "set ip" /\ ret'.op = "ip") => ret'.val = ret.val]_vars

----------------------------------------------------------------------------
(* URL decomposition: url, path, querystring, search and query.            *)
(* parseurl memoizes its result on the raw request (req._parsedUrl) and    *)
(* the setters write into that memoized object before they format it.      *)

\* a value that may be null: the empty sequence, or a sequence of one value
Null == <<>>
Some(x) == <<x>>

\* the index of the first c in s, or 0
RECURSIVE IndexFrom(_, _, _)
IndexFrom(s, c, i) ==
    IF i > Len(s) THEN 0 ELSE IF s[i] = c THEN i ELSE IndexFrom(s, c, i + 1)

IndexOf(s, c) == IndexFrom(s, c, 1)

\* parseurl's fastparse, for a url that starts with "/" and holds neither
\* whitespace nor "#": the first "?" ends the pathname
fastparse(str) ==
    LET i == IndexOf(str, "?")
    IN  IF i = 0
        THEN [parsed |-> TRUE, raw |-> str, pathname |-> str,
              search |-> Null, query |-> Null]
        ELSE [parsed |-> TRUE, raw |-> str,
              pathname |-> SubSeq(str, 1, i - 1),
              search |-> Some(SubSeq(str, i, Len(str))),
              query |-> Some(SubSeq(str, i + 1, Len(str)))]

\* parse(this.req): the memoized object while its _raw is still req.url
parse == IF parsedUrl.parsed /\ parsedUrl.raw = url THEN parsedUrl ELSE fastparse(url)

\* url.format's escaping of a pathname ("?" and "#") and of a search ("#")
RECURSIVE Escape(_, _)
Escape(s, specials) ==
    IF s = <<>> THEN <<>>
    ELSE (IF Head(s) = "?" /\ "?" \in specials THEN <<"%", "3", "F">>
          ELSE IF Head(s) = "#" /\ "#" \in specials THEN <<"%", "2", "3">>
          ELSE <<Head(s)>>) \o Escape(Tail(s), specials)

\* stringify(url), url.format of a parsed object with no protocol, host or hash
stringify(u) ==
    LET pathname == Escape(u.pathname, {"?", "#"})
        search == IF u.search = Null THEN <<>> ELSE Escape(u.search[1], {"#"})
    IN  pathname \o (IF search # <<>> /\ Head(search) # "?"
                     THEN <<"?">> \o search
                     ELSE search)

\* null || ''
OrEmpty(option) == IF option = Null THEN <<>> ELSE option[1]

Path == parse.pathname
Querystring == OrEmpty(parse.query)
Search == IF Querystring = <<>> THEN <<>> ELSE <<"?">> \o Querystring

\* sp.parse: the pieces between "&", each split at its first "="; a name maps
\* to the list of its values in order
RECURSIVE Pairs(_)
Pairs(pieces) ==
    IF pieces = <<>> THEN <<>>
    ELSE LET piece == Head(pieces)
             i == IndexOf(piece, "=")
             pair == IF i = 0 THEN <<piece, <<>> >>
                     ELSE <<SubSeq(piece, 1, i - 1), SubSeq(piece, i + 1, Len(piece))>>
         IN  (IF piece = <<>> THEN <<>> ELSE <<pair>>) \o Pairs(Tail(pieces))

RECURSIVE ValuesOf(_, _)
ValuesOf(pairs, name) ==
    IF pairs = <<>> THEN <<>>
    ELSE (IF Head(pairs)[1] = name THEN <<Head(pairs)[2]>> ELSE <<>>)
         \o ValuesOf(Tail(pairs), name)

spParse(str) ==
    LET pairs == Pairs(SplitAll(str, "&", <<>>))
    IN  [name \in {pairs[i][1] : i \in DOMAIN pairs} |-> ValuesOf(pairs, name)]

\* sp.stringify of an object given as the list of its entries
RECURSIVE spStringify(_)
spStringify(entries) ==
    IF entries = <<>> THEN <<>>
    ELSE Head(entries)[1] \o <<"=">> \o Head(entries)[2]
         \o (IF Tail(entries) = <<>> THEN <<>> ELSE <<"&">> \o spStringify(Tail(entries)))

Parsed(mapping) == [kind |-> "mapping", value |-> mapping]

\* c[str] on the plain object this._querycache
CacheGet(c, str) ==
    IF str \in DOMAIN c THEN c[str]
    ELSE IF str \in ObjectPrototypeKeys THEN Inherited(str)
    ELSE NotFound

\* The raw request after an accessor.  A memoized object whose _raw is no
\* longer req.url is never read again (parseurl replaces it on its next call),
\* so it is kept as no memo at all.
Leaves(u, p) ==
    /\ url' = u
    /\ parsedUrl' = (IF p.parsed /\ p.raw = u THEN p ELSE NoParsedUrl)
    /\ UNCHANGED <<headers, method, socket, httpVersionMajor, app, ip,
                   memoizedURL, originalUrl, status, responseHeader, nextId>>

\* set url
SetUrl(val) ==
    /\ Leaves(val, parsedUrl)
    /\ ret' = [op |-> "set url", val |-> <<>>]
    /\ UNCHANGED querycache

\* get path
GetPath ==
    /\ Leaves(url, parse)
    /\ ret' = [op |-> "path", val |-> Path]
    /\ UNCHANGED querycache

\* a path setter that formats the new target without the search
PathAssignedDroppingSearch(path) ==
    IF parse.pathname = path THEN [url |-> url, parsed |-> parse]
    ELSE LET u == [parse EXCEPT !.pathname = path, !.search = Null, !.query = Null]
         IN  [url |-> stringify(u), parsed |-> u]

\* the raw request after set path
PathAssigned(path) ==
    IF parse.pathname = path THEN [url |-> url, parsed |-> parse]
    ELSE LET u == [parse EXCEPT !.pathname = path]
         IN  [url |-> stringify(u), parsed |-> u]

\* set path
SetPath(path) ==
    /\ Leaves(PathAssigned(path).url, PathAssigned(path).parsed)
    /\ ret' = [op |-> "set path", val |-> path]
    /\ UNCHANGED querycache

\* get querystring
GetQuerystring ==
    /\ Leaves(url, parse)
    /\ ret' = [op |-> "querystring", val |-> Querystring]
    /\ UNCHANGED querycache

\* the raw request after set querystring
QuerystringAssigned(str) ==
    IF parse.search = Some(<<"?">> \o str) THEN [url |-> url, parsed |-> parse]
    ELSE LET u == [parse EXCEPT !.search = Some(str)]
         IN  [url |-> stringify(u), parsed |-> u]

\* set querystring
SetQuerystring(str) ==
    /\ Leaves(QuerystringAssigned(str).url, QuerystringAssigned(str).parsed)
    /\ ret' = [op |-> "set querystring", val |-> <<>>]
    /\ UNCHANGED querycache

\* get search
GetSearch ==
    /\ Leaves(url, parse)
    /\ ret' = [op |-> "search", val |-> Search]
    /\ UNCHANGED querycache

\* set search
SetSearch(str) ==
    /\ Leaves(QuerystringAssigned(str).url, QuerystringAssigned(str).parsed)
    /\ ret' = [op |-> "set search", val |-> <<>>]
    /\ UNCHANGED querycache

\* what get query returns: c[str] || (c[str] = sp.parse(str))
Query ==
    IF CacheGet(querycache, Querystring) # NotFound
    THEN CacheGet(querycache, Querystring)
    ELSE Parsed(spParse(Querystring))

\* this._querycache after get query
QueryCached ==
    IF CacheGet(querycache, Querystring) # NotFound THEN querycache
    ELSE (Querystring :> Parsed(spParse(Querystring))) @@ querycache

\* get query
GetQuery ==
    /\ Cardinality(DOMAIN QueryCached) <= MaxCached
    /\ Leaves(url, parse)
    /\ ret' = [op |-> "query", val |-> Query]
    /\ querycache' = QueryCached

\* set query
SetQuery(obj) ==
    /\ Leaves(QuerystringAssigned(spStringify(obj)).url,
              QuerystringAssigned(spStringify(obj)).parsed)
    /\ ret' = [op |-> "set query", val |-> obj]
    /\ UNCHANGED querycache

PathInputs == {Slash \o x : x \in Strs({"a", "?", "#"}, MaxPathLen)}
QueryInputs == Strs({"a", "=", "&", "?"}, MaxQueryLen)
QueryObjects ==
    {<<>>, << <<<<"a">>, <<>> >> >>, << <<<<"a">>, <<"a">> >> >>,
     << <<<<"a">>, <<"a">> >>, <<<<"b">>, <<>> >> >>}
UrlsOver(queries) ==
    {p \o s : p \in {Slash, <<"/", "a">>},
              s \in {<<>>} \cup {<<"?">> \o q : q \in queries}}
UrlInputs == UrlsOver(QueryInputs)

\* the query strings of the runs that read query: short ones, and one that
\* names a method of Object.prototype
CachedQueryInputs ==
    Strs({"a", "=", "&", "?"}, MaxCachedQueryLen)
        \cup {<<"t","o","S","t","r","i","n","g">>}

PlainRequest ==
    /\ Untouched
    /\ headers = [id |-> 0, map |-> EmptyMap]
    /\ httpVersionMajor = 1
    /\ socket = [encrypted |-> FALSE, remoteAddress |-> <<>>]
    /\ app = [proxy |-> FALSE, proxyIpHeader |-> XForwardedFor, maxIpsCount |-> 0]

\* a request for "/"; set url then rewrites the target
InitUrl == url = Slash /\ PlainRequest

NextPath ==
    \/ \E val \in UrlInputs : SetUrl(val)
    \/ GetPath
    \/ \E path \in PathInputs : SetPath(path)
    \/ GetQuerystring
    \/ \E str \in QueryInputs : SetQuerystring(str)
    \/ GetSearch
    \/ \E str \in QueryInputs : SetSearch(str)

SpecPath == InitUrl /\ [][NextPath]_vars

NextUrl ==
    \/ \E val \in UrlsOver(CachedQueryInputs) : SetUrl(val)
    \/ GetPath
    \/ \E path \in PathInputs : SetPath(path)
    \/ GetQuerystring
    \/ \E str \in CachedQueryInputs : SetQuerystring(str)
    \/ GetSearch
    \/ \E str \in CachedQueryInputs : SetSearch(str)
    \/ GetQuery
    \/ \E obj \in QueryObjects : SetQuery(obj)

SpecUrl == InitUrl /\ [][NextUrl]_vars

----------------------------------------------------------------------------
(* What the claims about URL decomposition expect.                         *)

\* C6: a read of query returns the mapping sp.parse gives for the current
\* querystring, whatever was assigned to url, path, querystring, search and
\* query before; the result is the cache's entry for that querystring, so a
\* second read returns it again; and after query = obj the querystring is
\* sp.stringify(obj).
C6_QueryNeverStale ==
    /\ ret.op = "query" => ret.val = Parsed(spParse(Querystring))
    /\ ret.op = "query" => CacheGet(querycache, Querystring) = ret.val
    /\ ret.op = "set query" => Querystring = spStringify(ret.val)

\* the part of the target from its first "?" on
RawSearch(target) ==
    IF IndexOf(target, "?") = 0 THEN <<>>
    ELSE SubSeq(target, IndexOf(target, "?"), Len(target))

HasNone(s, chars) == \A i \in DOMAIN s : s[i] \notin chars

----------------------------------------------------------------------------
(* Header access: header and headers read and replace req.headers.  A      *)
(* mapping is an object: its id tells two equal mappings apart.            *)

HeaderMaps ==
    {Restrict(f, present) :
        f \in [{xfh, hostKey} -> Strs({"v"}, MaxHeaderLen)],
        present \in SUBSET {xfh, hostKey}}

HeaderObjects == {[id |-> i, map |-> m] : i \in 1..MaxHeaderObjects, m \in HeaderMaps}

\* a setter that copies the entries of val into the mapping already there
HeadersMerged(val) == [id |-> headers.id, map |-> val.map @@ headers.map]

\* req.headers after this.req.headers = val
HeadersAssigned(val) == val

Header == headers
Headers == headers

OnlyHeaders ==
    UNCHANGED <<url, parsedUrl, method, socket, httpVersionMajor, app, ip,
                querycache, memoizedURL, originalUrl, status, responseHeader,
                nextId>>

\* get header
GetHeader == ret' = [op |-> "header", val |-> Header] /\ UNCHANGED headers /\ OnlyHeaders

\* set header
SetHeader(val) ==
    /\ headers' = HeadersAssigned(val)
    /\ ret' = [op |-> "set header", val |-> val]
    /\ OnlyHeaders

\* get headers
GetHeaders == ret' = [op |-> "headers", val |-> Headers] /\ UNCHANGED headers /\ OnlyHeaders

\* set headers
SetHeaders(val) ==
    /\ headers' = HeadersAssigned(val)
    /\ ret' = [op |-> "set headers", val |-> val]
    /\ OnlyHeaders

InitHeaders ==
    /\ url = Slash
    /\ Untouched
    /\ \E m \in HeaderMaps : headers = [id |-> 0, map |-> m]
    /\ httpVersionMajor = 1
    /\ socket = [encrypted |-> FALSE, remoteAddress |-> <<>>]
    /\ app = [proxy |-> FALSE, proxyIpHeader |-> XForwardedFor, maxIpsCount |-> 0]

NextHeaders ==
    \/ GetHeader
    \/ \E val \in HeaderObjects : SetHeader(val)
    \/ GetHeaders
    \/ \E val \in HeaderObjects : SetHeaders(val)

SpecHeaders == InitHeaders /\ [][NextHeaders]_vars

\* C10: the header and headers getters return the raw request's mapping
\* itself, and after an assignment through either setter the raw request's
\* mapping, hence what both getters return, is the assigned mapping itself:
\* the same object, holding the assigned entries and no others.
C10_HeadersPassthrough ==
    /\ ret.op \in {"header", "headers"} => ret.val = headers
    /\ ret.op \in {"set header", "set headers"} =>
          /\ headers = ret.val
          /\ Header = ret.val
          /\ Headers = ret.val

\* a mapping was assigned over a mapping that held an entry the new one lacks
C10_Witness ==
    /\ ret.op = "set headers"
    /\ headers = ret.val
    /\ hostKey \notin DOMAIN headers.map
    /\ xfh \in DOMAIN headers.map

----------------------------------------------------------------------------
(* The memoized WHATWG URL object.                                         *)

\* `${this.protocol}://${this.host}${originalUrl}`
Href == Protocol \o <<":", "/", "/">> \o Host \o originalUrl

\* new URL(Href) returns an object or throws; which of the two is decided by
\* the WHATWG parser, outside this file, so both are allowed for every input.
\* A caught failure leaves Object.create(null), the placeholder.
Constructed(ok) ==
    IF ok THEN [kind |-> "URL", id |-> nextId, href |-> Href]
    ELSE [kind |-> "placeholder", id |-> nextId, href |-> <<>>]

\* a getter that builds the object on every access
MemoizedRebuilt(ok) == Constructed(ok)

\* this.memoizedURL after get URL
Memoized(ok) == IF memoizedURL = NoURL THEN Constructed(ok) ELSE memoizedURL

\* get URL
GetURL ==
    \E ok \in BOOLEAN :
        /\ Memoized(ok) # memoizedURL => nextId <= MaxUrlObjects
        /\ memoizedURL' = Memoized(ok)
        /\ nextId' = IF Memoized(ok) # memoizedURL THEN nextId + 1 ELSE nextId
        /\ ret' = [op |-> "URL", val |-> memoizedURL']
        /\ UNCHANGED <<headers, url, parsedUrl, method, socket,
                       httpVersionMajor, app, ip, querycache, originalUrl,
                       status, responseHeader>>

InitURL ==
    /\ url \in {Slash, <<"/", "a">>}
    /\ Untouched
    /\ \E m \in HeaderMaps : headers = [id |-> 0, map |-> m]
    /\ httpVersionMajor = 1
    /\ \E e \in BOOLEAN : socket = [encrypted |-> e, remoteAddress |-> <<>>]
    /\ \E p \in BOOLEAN :
          app = [proxy |-> p, proxyIpHeader |-> XForwardedFor, maxIpsCount |-> 0]

NextURL ==
    \/ GetURL
    \/ \E val \in {Slash, <<"/", "a">>, <<"/", "b">>} : SetUrl(val)
    \/ \E val \in HeaderObjects : SetHeaders(val)
    \/ \E p \in BOOLEAN : ChangeProxy(p)

SpecURL == InitURL /\ [][NextURL]_vars

\* C8: a read of URL returns this.memoizedURL, which is then set; the first
\* read sets it to an object built from protocol://host + originalUrl or, when
\* the construction fails, to the placeholder; once set it never changes,
\* whatever is assigned to url, headers or app.proxy.
C8_URLMemoized ==
    [][/\ ret'.op = "URL" => (ret'.val = memoizedURL' /\ memoizedURL' # NoURL)
       /\ memoizedURL # NoURL => memoizedURL' = memoizedURL
       /\ (memoizedURL = NoURL /\ memoizedURL' # NoURL) =>
             \/ memoizedURL'.kind = "placeholder"
             \/ memoizedURL'.kind = "URL" /\ memoizedURL'.href = Href]_vars

\* URL was read again after the host it was built from had changed
C8_Witness ==
    /\ ret.op = "URL"
    /\ ret.val.kind = "URL"
    /\ ret.val = memoizedURL
    /\ ret.val.href # Href

----------------------------------------------------------------------------
(* Freshness.                                                              *)

IfNoneMatch == <<"i","f","-","n","o","n","e","-","m","a","t","c","h">>
IfModifiedSince == <<"i","f","-","m","o","d","i","f","i","e","d","-","s","i","n","c","e">>
CacheControl == <<"c","a","c","h","e","-","c","o","n","t","r","o","l">>
ETag == <<"e","t","a","g">>
LastModified == <<"l","a","s","t","-","m","o","d","i","f","i","e","d">>
NoCache == <<"n","o","-","c","a","c","h","e">>
Star == <<"*">>

\* the order of the dates the model uses ("1" is earlier than "2")
DateValue(d) == IF d = <<"1">> THEN 1 ELSE 2

\* fresh(reqHeaders, resHeaders), the conditional-header comparison: both
\* validators the request sends must match the response's
freshness(reqHeaders, resHeaders) ==
    LET modifiedSince == Lookup(reqHeaders, IfModifiedSince)
        noneMatch == Lookup(reqHeaders, IfNoneMatch)
        etag == Lookup(resHeaders, ETag)
        lastModified == Lookup(resHeaders, LastModified)
    IN  /\ modifiedSince # <<>> \/ noneMatch # <<>>
        /\ Lookup(reqHeaders, CacheControl) # NoCache
        /\ (noneMatch # <<>> /\ noneMatch # Star) => (etag # <<>> /\ noneMatch = etag)
        /\ modifiedSince # <<>> =>
              (lastModified # <<>> /\ DateValue(lastModified) <= DateValue(modifiedSince))

\* a getter that leaves out the status test
FreshAnyStatus ==
    IF method # GET /\ method # HEAD THEN FALSE
    ELSE freshness(Header.map, responseHeader)

\* get fresh
Fresh ==
    IF method # GET /\ method # HEAD THEN FALSE
    ELSE IF (status >= 200 /\ status < 300) \/ status = 304
         THEN freshness(Header.map, responseHeader)
    ELSE FALSE

\* get stale
Stale == ~Fresh

GetFresh == Returns("fresh", Fresh)
GetStale == Returns("stale", Stale)

Methods == {GET, HEAD, POST, <<"g","e","t">>}
Statuses == {199, 200, 204, 299, 300, 304, 404}
Tags == {<<"a">>, <<"b">>}
Dates == {<<"1">>, <<"2">>}

RequestValidators ==
    {Restrict((IfNoneMatch :> t) @@ (IfModifiedSince :> d) @@ (CacheControl :> NoCache),
              present) :
        t \in Tags \cup {Star}, d \in Dates,
        present \in SUBSET {IfNoneMatch, IfModifiedSince, CacheControl}}

ResponseValidators ==
    {Restrict((ETag :> t) @@ (LastModified :> d), present) :
        t \in Tags, d \in Dates, present \in SUBSET {ETag, LastModified}}

InitFresh ==
    /\ url = Slash
    /\ originalUrl = url
    /\ parsedUrl = NoParsedUrl
    /\ method \in Methods
    /\ ip = <<>>
    /\ querycache = EmptyMap
    /\ memoizedURL = NoURL
    /\ status \in Statuses
    /\ responseHeader \in ResponseValidators
    /\ nextId = 1
    /\ ret = NoRet
    /\ \E m \in RequestValidators : headers = [id |-> 0, map |-> m]
    /\ httpVersionMajor = 1
    /\ socket = [encrypted |-> FALSE, remoteAddress |-> <<>>]
    /\ app = [proxy |-> FALSE, proxyIpHeader |-> XForwardedFor, maxIpsCount |-> 0]

NextFresh == GetFresh \/ GetStale

SpecFresh == InitFresh /\ [][NextFresh]_vars

\* C9: fresh is false when the method is neither GET nor HEAD, and false when
\* the response status is neither in [200, 300) nor 304, whatever the
\* validators; for GET and HEAD with such a status it is the result of the
\* conditional-header comparison of the request headers with the response
\* headers.  stale is the negation of fresh.
C9_Fresh ==
    /\ (ret.op = "fresh" /\ method \notin {GET, HEAD}) => ret.val = FALSE
    /\ (ret.op = "fresh" /\ status \notin (200..299) \cup {304}) => ret.val = FALSE
    /\ (ret.op = "fresh" /\ method \in {GET, HEAD} /\ status \in (200..299) \cup {304}) =>
          ret.val = freshness(headers.map, responseHeader)
    /\ ret.op = "stale" => ret.val = ~Fresh
    /\ ret.op = "stale" =>
          ret.val = ~(/\ method \in {GET, HEAD}
                      /\ status \in (200..299) \cup {304}
                      /\ freshness(headers.map, responseHeader))

\* fresh was read for a GET whose validators match a response of status 404
C9_Witness ==
    /\ ret.op = "fresh"
    /\ method = GET
    /\ status = 404
    /\ freshness(headers.map, responseHeader)
    /\ ret.val = FALSE

----------------------------------------------------------------------------
(* Single-header lookup: get(field) over req.headers.                      *)

MaxCapitals == 2

UpperChar(c) ==
    IF \E i \in DOMAIN LowerCase : LowerCase[i] = c
    THEN UpperCase[CHOOSE i \in DOMAIN LowerCase : LowerCase[i] = c]
    ELSE c

\* name with the letters at the positions in capitals written in upper case
Cased(name, capitals) ==
    [i \in DOMAIN name |-> IF i \in capitals THEN UpperChar(name[i]) ELSE name[i]]

\* the spellings of name with at most MaxCapitals capital letters
Spellings(name) ==
    {Cased(name, capitals) :
        capitals \in {c \in SUBSET DOMAIN name : Cardinality(c) <= MaxCapitals}}

Constructor == <<"c","o","n","s","t","r","u","c","t","o","r">>
Tostring == <<"t","o","s","t","r","i","n","g">>
LowerA == <<"a">>
UpperA == <<"A">>

\* the field names get is called with
FieldInputs == UNION {Spellings(name) : name \in {Referer, Referrer, Constructor, Tostring, LowerA}}

\* the mappings get reads: the two referrer headers, empty or not, and one
\* more header under a lower-case or an upper-case name
FieldMaps ==
    {Restrict(f, present) :
        f \in {g \in [{Referer, Referrer, LowerA, UpperA} -> Strs({"v", "w"}, MaxHeaderLen)] :
                 /\ g[Referer] \in Strs({"v"}, MaxHeaderLen)
                 /\ g[Referrer] \in Strs({"w"}, MaxHeaderLen)
                 /\ g[LowerA] = <<"v">>
                 /\ g[UpperA] = <<"w">>},
        present \in SUBSET {Referer, Referrer, LowerA, UpperA}}

\* get(field)
GetField(field) == Returns("get", [field |-> field, result |-> get(field)])

InitGet ==
    /\ url = Slash
    /\ Untouched
    /\ \E m \in FieldMaps : headers = [id |-> 0, map |-> m]
    /\ httpVersionMajor = 1
    /\ socket = [encrypted |-> FALSE, remoteAddress |-> <<>>]
    /\ app = [proxy |-> FALSE, proxyIpHeader |-> XForwardedFor, maxIpsCount |-> 0]

NextGet ==
    \/ \E field \in FieldInputs : GetField(field)
    \/ \E m \in FieldMaps : SetHeaders([id |-> 1, map |-> m])

SpecGet == InitGet /\ [][NextGet]_vars

\* a and b are the same name up to the case of their letters
SameButCase(a, b) ==
    /\ Len(a) = Len(b)
    /\ \A i \in DOMAIN a :
          \/ a[i] = b[i]
          \/ \E k \in DOMAIN UpperCase : {a[i], b[i]} = {UpperCase[k], LowerCase[k]}

\* the names of the headers of map that are field up to letter case
Named(map, field) == {k \in DOMAIN map : SameButCase(k, field)}

\* the raw header name of map is there with a value
Present(map, name) == name \in DOMAIN map /\ map[name] # <<>>

\* C11: get(field) is a case-insensitive single-header lookup: any two field
\* names that differ only in letter case give identical results; every
\* spelling of "referrer" and of "referer" gives the raw referrer header when
\* it is present, else the raw referer header when that one is present; and
\* when the mapping holds no header of that name the result is the empty
\* string.
C11_GetCaseInsensitive ==
    ret.op = "get" =>
        LET field == ret.val.field
            result == ret.val.result
            map == headers.map
        IN  /\ \A other \in FieldInputs :
                  SameButCase(field, other) => get(other) = result
            /\ (\E name \in {Referer, Referrer} : SameButCase(field, name)) =>
                  /\ Present(map, Referrer) => result = Str(map[Referrer])
                  /\ (~Present(map, Referrer) /\ Present(map, Referer)) =>
                        result = Str(map[Referer])
            /\ (/\ Named(map, field) = {}
                /\ \A name \in {Referer, Referrer} :
                      SameButCase(field, name) => Named(map, Referer) \cup Named(map, Referrer) = {})
                  => result = Str(<<>>)

====
